---------------------------- MODULE Spec2Model ----------------------------
(***************************************************************************)
(* A model of the header classification, mapping, value normalisation and  *)
(* validation engine of the Excel parser (src/app).  Python strings are    *)
(* TLA+ strings; Optional[str] is <<>> (None) or <<s>>; a float is a       *)
(* decimal fraction <<n, d>> with d a power of ten.                        *)
(***************************************************************************)
EXTENDS Integers, Sequences, FiniteSets, TLC

(***************************************************************************)
(* Python built-ins on str.                                                *)
(***************************************************************************)
None == <<>>

Some(x) == <<x>>

Char(s, i) == SubSeq(s, i, i)

\* Python `sub in s`.
Contains(sub, s) ==
  \E i \in 0..(Len(s) - Len(sub)) : SubSeq(s, i + 1, i + Len(sub)) = sub

\* Python s.startswith(p).
StartsWith(s, p) == Len(p) <= Len(s) /\ SubSeq(s, 1, Len(p)) = p

UpperLetters == "ABCDEFGHIJKLMNOPQRSTUVWXYZ"

LowerLetters == "abcdefghijklmnopqrstuvwxyz"

LowerChar(c) ==
  IF \E i \in 1..Len(UpperLetters) : Char(UpperLetters, i) = c
  THEN Char(LowerLetters, CHOOSE i \in 1..Len(UpperLetters) : Char(UpperLetters, i) = c)
  ELSE c

UpperChar(c) ==
  IF \E i \in 1..Len(LowerLetters) : Char(LowerLetters, i) = c
  THEN Char(UpperLetters, CHOOSE i \in 1..Len(LowerLetters) : Char(LowerLetters, i) = c)
  ELSE c

RECURSIVE Lower(_)
\* Python s.lower().
Lower(s) == IF s = "" THEN "" ELSE LowerChar(Head(s)) \o Lower(Tail(s))

RECURSIVE Upper(_)
\* Python s.upper().
Upper(s) == IF s = "" THEN "" ELSE UpperChar(Head(s)) \o Upper(Tail(s))

RECURSIVE LStrip(_)
LStrip(s) == IF s # "" /\ Head(s) = " " THEN LStrip(Tail(s)) ELSE s

RECURSIVE RStrip(_)
RStrip(s) ==
  IF s # "" /\ Char(s, Len(s)) = " " THEN RStrip(SubSeq(s, 1, Len(s) - 1)) ELSE s

\* Python s.strip() (the only whitespace of the cell texts is the blank).
Strip(s) == RStrip(LStrip(s))

RECURSIVE Remove(_, _)
\* Python s.replace(c, "") for a one-character c.
Remove(s, c) ==
  IF s = "" THEN ""
  ELSE (IF Head(s) = c THEN "" ELSE Head(s)) \o Remove(Tail(s), c)

(***************************************************************************)
(* Scores and cell values: fractions <<n, d>>, d > 0.                      *)
(***************************************************************************)
Frac(n, d) == <<n, d>>

FracGt(a, b) == a[1] * b[2] > b[1] * a[2]

FracLt(a, b) == FracGt(b, a)

FracEq(a, b) == a[1] * b[2] = b[1] * a[2]

FracLe(a, b) == ~FracGt(a, b)

(***************************************************************************)
(* registries.py                                                           *)
(***************************************************************************)
PARAMETER_REGISTRY ==
  <<
     [name |-> "coal_consumption", unit |-> "MT",
      aliases |-> <<"Coal Consumption", "Coal Used", "Coal (MT)", "Daily Coal", "Coal Used (MT)", "COAL CONSMPTN">>],
     [name |-> "coal_gcv", unit |-> "kcal/kg",
      aliases |-> <<"Coal GCV", "Coal Gross Calorific Value", "GCV", "COALCV">>],
     [name |-> "steam_generation", unit |-> "T/hr",
      aliases |-> <<"Steam", "Steam Generated", "Steam Generation", "Steam (Boiler)", "Steam Output", "STEAM GEN">>],
     [name |-> "steam_consumption", unit |-> "T/hr",
      aliases |-> <<"Steam Consumption", "Steam Used", "Steam Input">>],
     [name |-> "power_generation", unit |-> "MWh",
      aliases |-> <<"Power", "Power Generated", "Power Output", "Power (MW)", "Power Generation", "Power TG", "POWER GEN">>],
     [name |-> "power_consumption", unit |-> "MWh",
      aliases |-> <<"Power Consumption", "Power Used", "Auxiliary Power Load">>],
     [name |-> "power_export", unit |-> "MWh",
      aliases |-> <<"Power Export", "Power Exported", "Grid Export">>],
     [name |-> "water_consumption", unit |-> "KL",
      aliases |-> <<"Water", "Water Consumption", "Water Used", "Water (KL)">>],
     [name |-> "co2_emissions", unit |-> "tCO2e",
      aliases |-> <<"CO2 Emissions", "CO2", "Carbon Dioxide">>],
     [name |-> "so2_emissions", unit |-> "kg",
      aliases |-> <<"SO2 Emissions", "SO2", "Sulfur Dioxide">>],
     [name |-> "nox_emissions", unit |-> "kg",
      aliases |-> <<"NOx Emissions", "NOx", "Nitrogen Oxides">>],
     [name |-> "fly_ash_generated", unit |-> "MT",
      aliases |-> <<"Fly Ash", "Fly Ash Generated", "Ash Output">>],
     [name |-> "efficiency", unit |-> "%",
      aliases |-> <<"Efficiency", "Plant Efficiency", "Overall Efficiency", "EFF %", "Boiler Efficiency">>],
     [name |-> "specific_coal_consumption", unit |-> "kg/kWh",
      aliases |-> <<"Specific Coal Consumption", "SCC", "Coal Per Unit">>],
     [name |-> "heat_rate", unit |-> "kcal/kWh",
      aliases |-> <<"Heat Rate", "Heat Input Rate", "HR">>],
     [name |-> "plant_load_factor", unit |-> "%",
      aliases |-> <<"Plant Load Factor", "PLF", "Capacity Factor">>],
     [name |-> "lignite_consumption", unit |-> "MT",
      aliases |-> <<"Lignite", "Lignite Consumption", "Brown Coal">>],
     [name |-> "biomass_consumption", unit |-> "MT",
      aliases |-> <<"Biomass", "Biomass Consumption", "Bio-fuel">>],
     [name |-> "production_output", unit |-> "MT",
      aliases |-> <<"Production", "Output", "Production Output">>],
     [name |-> "operating_hours", unit |-> "hrs",
      aliases |-> <<"Operating Hours", "Runtime", "Hours", "HOURS", "Uptime">>]
  >>

ASSET_REGISTRY ==
  <<
     [name |-> "AFBC-1", aliases |-> <<"AFBC-1", "Boiler 1", "AFBC 1", "AFB1">>],
     [name |-> "AFBC-2", aliases |-> <<"AFBC-2", "Boiler 2", "AFBC 2", "AFB2">>],
     [name |-> "TG-1", aliases |-> <<"TG-1", "TG1", "Turbine 1", "Generator 1">>],
     [name |-> "TG-2", aliases |-> <<"TG-2", "TG2", "Turbine 2", "Generator 2">>],
     [name |-> "VSF", aliases |-> <<"VSF", "Viscose Staple Fiber", "Fiber">>],
     [name |-> "KILN-1", aliases |-> <<"KILN-1", "Kiln 1", "Rotary Kiln 1", "RK1">>]
  >>

\* get_parameter_by_name: the first registry entry of that name, or None.
get_parameter_by_name(param_name) ==
  IF \E i \in 1..Len(PARAMETER_REGISTRY) : PARAMETER_REGISTRY[i].name = param_name
  THEN Some(PARAMETER_REGISTRY[CHOOSE i \in 1..Len(PARAMETER_REGISTRY) :
              /\ PARAMETER_REGISTRY[i].name = param_name
              /\ \A j \in 1..(i - 1) : PARAMETER_REGISTRY[j].name # param_name])
  ELSE None

ParameterNames == {PARAMETER_REGISTRY[i].name : i \in 1..Len(PARAMETER_REGISTRY)}

AssetNames == {ASSET_REGISTRY[i].name : i \in 1..Len(ASSET_REGISTRY)}

(***************************************************************************)
(* llm_agent.py: the lexical matchers                                      *)
(***************************************************************************)
\* _string_similarity, the score as a fraction.
\* _string_similarity without its `s1 == s2` shortcut: equal strings then score
\* as one containing the other.
StringSimilarityNoShortcut(s1, s2) ==
  IF s1 = "" \/ s2 = "" THEN Frac(0, 1)
  ELSE IF Contains(s1, s2) \/ Contains(s2, s1) THEN Frac(9, 10)
  ELSE LET longer  == IF Len(s1) > Len(s2) THEN s1 ELSE s2
           shorter == IF Len(s1) > Len(s2) THEN s2 ELSE s1
           match_count ==
             Cardinality({i \in 1..Len(shorter) : Contains(Char(shorter, i), longer)})
       IN  Frac(match_count, Len(longer))

_string_similarity(s1, s2) ==
  IF s1 = s2 THEN Frac(1, 1)
  ELSE IF s1 = "" \/ s2 = "" THEN Frac(0, 1)
  ELSE IF Contains(s1, s2) \/ Contains(s2, s1) THEN Frac(9, 10)
  ELSE LET longer  == IF Len(s1) > Len(s2) THEN s1 ELSE s2
           shorter == IF Len(s1) > Len(s2) THEN s2 ELSE s1
           match_count ==
             Cardinality({i \in 1..Len(shorter) : Contains(Char(shorter, i), longer)})
       IN  Frac(match_count, Len(longer))

non_terms ==
  <<"date", "time", "timestamp", "day", "month", "year", "id", "comment",
    "notes", "remarks", "description">>

\* _is_non_parameter matching the terms in the header as written, without
\* lowercasing it first.
IsNonParameterCaseSensitive(header) ==
  IF header = "" THEN <<TRUE, Some("Empty header")>>
  ELSE LET hits == {i \in 1..Len(non_terms) : Contains(non_terms[i], header)}
       IN  IF hits # {}
           THEN LET first == CHOOSE i \in hits : \A j \in hits : i <= j
                IN  <<TRUE, Some("Non-parameter column detected: '" \o non_terms[first] \o "'")>>
           ELSE IF StartsWith(header, "column_") \/ StartsWith(Strip(header), "unnamed")
                THEN <<TRUE, Some("Unnamed or generic column")>>
                ELSE <<FALSE, None>>

\* _is_non_parameter: <<flag, reason>>; header is an Optional-free str here
\* ("" stands for every falsy header).
_is_non_parameter(header) ==
  IF header = "" THEN <<TRUE, Some("Empty header")>>
  ELSE LET h == Lower(header)
           hits == {i \in 1..Len(non_terms) : Contains(non_terms[i], h)}
       IN  IF hits # {}
           THEN LET first == CHOOSE i \in hits : \A j \in hits : i <= j
                IN  <<TRUE, Some("Non-parameter column detected: '" \o non_terms[first] \o "'")>>
           ELSE IF StartsWith(h, "column_") \/ StartsWith(Lower(Strip(h)), "unnamed")
                THEN <<TRUE, Some("Unnamed or generic column")>>
                ELSE <<FALSE, None>>

\* The merged pattern table of _infer_asset_from_text, in dict order.
all_patterns ==
  << <<"boiler 1", "AFBC-1">>, <<"boiler1", "AFBC-1">>, <<"boiler-1", "AFBC-1">>,
     <<"afbc-1", "AFBC-1">>, <<"boiler 2", "AFBC-2">>, <<"boiler2", "AFBC-2">>,
     <<"boiler-2", "AFBC-2">>, <<"afbc-2", "AFBC-2">>,
     <<"tg-1", "TG-1">>, <<"tg1", "TG-1">>, <<"turbine 1", "TG-1">>,
     <<"turbine1", "TG-1">>, <<"turbine-1", "TG-1">>, <<"generator 1", "TG-1">>,
     <<"tg-2", "TG-2">>, <<"tg2", "TG-2">>, <<"turbine 2", "TG-2">>,
     <<"turbine2", "TG-2">>, <<"turbine-2", "TG-2">>, <<"generator 2", "TG-2">> >>

\* _infer_asset_from_text: <<asset, was_inferred>>.
_infer_asset_from_text(text) ==
  LET hits == {i \in 1..Len(all_patterns) : Contains(all_patterns[i][1], text)}
  IN  IF hits # {}
      THEN <<Some(all_patterns[CHOOSE i \in hits : \A j \in hits : i <= j][2]), TRUE>>
      ELSE <<None, FALSE>>

\* The (registry entry, alias) index pairs in the iteration order of the parameter
\* loop of _fuzzy_match_header.
AliasPairs ==
  UNION {{<<p, a>> : a \in 1..Len(PARAMETER_REGISTRY[p].aliases)} :
           p \in 1..Len(PARAMETER_REGISTRY)}

PairBefore(x, y) == x[1] < y[1] \/ (x[1] = y[1] /\ x[2] < y[2])

AliasScore(header_lower, pa) ==
  _string_similarity(header_lower, Lower(PARAMETER_REGISTRY[pa[1]].aliases[pa[2]]))

\* A parameter loop that names a parameter only when the best score is above
\* one half.
BestParamAboveHalf(header_lower) ==
  LET score == [pa \in AliasPairs |-> AliasScore(header_lower, pa)]
      top == CHOOSE pa \in AliasPairs :
               /\ \A pb \in AliasPairs : ~FracGt(score[pb], score[pa])
               /\ \A pb \in AliasPairs :
                    PairBefore(pb, pa) => FracGt(score[pa], score[pb])
  IN  IF FracGt(score[top], Frac(1, 2))
      THEN <<Some(PARAMETER_REGISTRY[top[1]].name), score[top]>>
      ELSE <<None, Frac(0, 1)>>

\* The parameter loop of _fuzzy_match_header: <<best_match, best_match_score>>.
\* best starts at (None, 0) and is replaced only on a strictly greater score, so
\* it ends at the first pair, in iteration order, that reaches the greatest
\* score, and stays (None, 0) when no score exceeds 0.
BestParam(header_lower) ==
  LET score == [pa \in AliasPairs |-> AliasScore(header_lower, pa)]
      top == CHOOSE pa \in AliasPairs :
               /\ \A pb \in AliasPairs : ~FracGt(score[pb], score[pa])
               /\ \A pb \in AliasPairs :
                    PairBefore(pb, pa) => FracGt(score[pa], score[pb])
  IN  IF FracGt(score[top], Frac(0, 1))
      THEN <<Some(PARAMETER_REGISTRY[top[1]].name), score[top]>>
      ELSE <<None, Frac(0, 1)>>

\* The asset loop of _fuzzy_match_header: its break leaves only the alias loop,
\* so every later asset with a contained alias overwrites best_asset.
DirectAsset(header_lower) ==
  LET hits == {i \in 1..Len(ASSET_REGISTRY) :
                 \E a \in 1..Len(ASSET_REGISTRY[i].aliases) :
                    Contains(Lower(ASSET_REGISTRY[i].aliases[a]), header_lower)}
  IN  IF hits = {} THEN None
      ELSE Some(ASSET_REGISTRY[CHOOSE i \in hits : \A j \in hits : j <= i].name)

\* Confidence levels with the high band starting above 0.9.
ScoreConfidenceAboveNineTenths(score) ==
  IF FracGt(score, Frac(9, 10)) THEN "high"
  ELSE IF FracGt(score, Frac(6, 10)) THEN "medium"
  ELSE "low"

\* The confidence level of a best score (llm_agent.py:125-130).
ScoreConfidence(score) ==
  IF FracGt(score, Frac(85, 100)) THEN "high"
  ELSE IF FracGt(score, Frac(6, 10)) THEN "medium"
  ELSE "low"

Digit2(n) == (IF n < 10 THEN "0" ELSE "") \o ToString(n)

\* f"{score:.2f}" for a score in [0, 1]: hundredths, ties to even.  A score is a
\* tie only when it is an odd number of eighths (exact in binary) as long as
\* header and alias are shorter than 40 characters.
Format2(score) ==
  LET n == score[1] * 100
      d == score[2]
      q == n \div d
      r == n % d
      h == IF 2 * r > d \/ (2 * r = d /\ q % 2 = 1) THEN q + 1 ELSE q
  IN  ToString(h \div 100) \o "." \o Digit2(h % 100)

\* _fuzzy_match_header.
_fuzzy_match_header(header) ==
  LET header_lower == Strip(Lower(header))
      best == BestParam(header_lower)
      direct == DirectAsset(header_lower)
      inferred == IF direct = None THEN _infer_asset_from_text(header_lower)
                  ELSE <<direct, FALSE>>
      best_asset == inferred[1]
      asset_inferred == inferred[2]
      confidence0 == ScoreConfidence(best[2])
      confidence == IF asset_inferred /\ best_asset # None /\ confidence0 = "high"
                    THEN "medium" ELSE confidence0
      reason == "Fuzzy matched with score " \o Format2(best[2])
                \o (IF asset_inferred
                    THEN "; asset inferred from boiler/turbine mapping" ELSE "")
  IN  [header |-> header, param_name |-> best[1], asset_name |-> best_asset,
       confidence |-> confidence, reason |-> reason]

(***************************************************************************)
(* Cells and floats.  A cell is what the spreadsheet reader yields: None,  *)
(* a str, an int, a float or a bool.  A float is kept as the decimal       *)
(* fraction it was written as; the cell texts and numbers of the model     *)
(* are plain decimals (no exponent, underscore, inf or nan forms) whose    *)
(* division by 100 is exact to the shortest repr, so the fraction and the  *)
(* double agree on every comparison and on repr().                         *)
(***************************************************************************)
NoneCell == [t |-> "none"]

StrCell(s) == [t |-> "str", v |-> s]

IntCell(n) == [t |-> "int", v |-> n]

FloatCell(n, d) == [t |-> "float", v |-> Frac(n, d)]

BoolCell(b) == [t |-> "bool", v |-> b]

Digits == "0123456789"

IsDigit(c) == c # "" /\ Contains(c, Digits)

DigitVal(c) == (CHOOSE i \in 1..10 : Char(Digits, i) = c) - 1

RECURSIVE DigitsToInt(_)
DigitsToInt(s) ==
  IF s = "" THEN 0
  ELSE DigitsToInt(SubSeq(s, 1, Len(s) - 1)) * 10 + DigitVal(Char(s, Len(s)))

RECURSIVE Pow10(_)
Pow10(k) == IF k = 0 THEN 1 ELSE 10 * Pow10(k - 1)

RECURSIVE Log10(_)
Log10(d) == IF d <= 1 THEN 0 ELSE 1 + Log10(d \div 10)

AllDigits(s) == \A i \in 1..Len(s) : IsDigit(Char(s, i))

\* Python float(s) on decimal notation: None stands for ValueError.
ParseFloat(s) ==
  LET t == Strip(s)
      signed == t # "" /\ (Head(t) = "-" \/ Head(t) = "+")
      body == IF signed THEN Tail(t) ELSE t
      dots == {i \in 1..Len(body) : Char(body, i) = "."}
      dot == IF dots = {} THEN Len(body) + 1 ELSE CHOOSE i \in dots : TRUE
      ip == SubSeq(body, 1, dot - 1)
      fp == SubSeq(body, dot + 1, Len(body))
      n == DigitsToInt(ip \o fp)
  IN  IF Cardinality(dots) <= 1 /\ AllDigits(ip) /\ AllDigits(fp) /\ ip \o fp # ""
      THEN Some(Frac(IF signed /\ Head(t) = "-" THEN 0 - n ELSE n, Pow10(Len(fp))))
      ELSE None

\* value / 100.
Div100(f) == Frac(f[1], f[2] * 100)

RECURSIVE RStripZeros(_)
RStripZeros(s) ==
  IF s # "" /\ Char(s, Len(s)) = "0" THEN RStripZeros(SubSeq(s, 1, Len(s) - 1)) ELSE s

RECURSIVE ZeroPad(_, _)
ZeroPad(s, k) == IF Len(s) >= k THEN s ELSE ZeroPad("0" \o s, k)

\* repr() of a float, as the f-strings of validate_value print it.
FloatRepr(f) ==
  LET a == IF f[1] < 0 THEN 0 - f[1] ELSE f[1]
      fp == RStripZeros(ZeroPad(ToString(a % f[2]), Log10(f[2])))
  IN  (IF f[1] < 0 THEN "-" ELSE "") \o ToString(a \div f[2]) \o "."
      \o (IF fp = "" THEN "0" ELSE fp)

\* str(cell).
PyStr(cell) ==
  CASE cell.t = "none" -> "None"
    [] cell.t = "str" -> cell.v
    [] cell.t = "int" -> ToString(cell.v)
    [] cell.t = "float" -> FloatRepr(cell.v)
    [] cell.t = "bool" -> IF cell.v THEN "True" ELSE "False"

\* Python truthiness of a cell.
Truthy(cell) ==
  CASE cell.t = "none" -> FALSE
    [] cell.t = "str" -> cell.v # ""
    [] cell.t = "int" -> cell.v # 0
    [] cell.t = "float" -> cell.v[1] # 0
    [] cell.t = "bool" -> cell.v
    [] cell.t = "hugeint" -> TRUE

\* float(cell) of a native number; bool is a subclass of int.
NativeFloat(cell) ==
  CASE cell.t = "int" -> Frac(cell.v, 1)
    [] cell.t = "float" -> cell.v
    [] cell.t = "bool" -> Frac(IF cell.v THEN 1 ELSE 0, 1)

(***************************************************************************)
(* value_parser.py                                                         *)
(***************************************************************************)
NUMERIC_PARAMS ==
  <<"coal_consumption", "steam_generation", "power_generation", "efficiency">>

\* IsNumericParam by equality with a whitelist entry instead of containment.
IsNumericParamExact(param_name) ==
  /\ param_name # None
  /\ \E i \in 1..Len(NUMERIC_PARAMS) : NUMERIC_PARAMS[i] = Lower(param_name[1])

\* `param_name and any(p in param_name.lower() for p in NUMERIC_PARAMS)`.
IsNumericParam(param_name) ==
  /\ param_name # None
  /\ param_name[1] # ""
  /\ \E i \in 1..Len(NUMERIC_PARAMS) : Contains(NUMERIC_PARAMS[i], Lower(param_name[1]))

\* `param_name and sub in param_name.lower()`.
ParamHas(param_name, sub) ==
  param_name # None /\ param_name[1] # "" /\ Contains(sub, Lower(param_name[1]))

\* The digit run of s that starts at j ends before RunEnd(s, j).
RunEnd(s, j) ==
  IF \E k \in j..Len(s) : ~IsDigit(Char(s, k))
  THEN CHOOSE k \in j..Len(s) :
         ~IsDigit(Char(s, k)) /\ \A m \in j..(k - 1) : IsDigit(Char(s, m))
  ELSE Len(s) + 1

\* Where \d*\.?\d+ matched at j ends (greedy, with backtracking); 0: no match.
MatchBody(s, j) ==
  LET k == RunEnd(s, j)
  IN  IF k + 1 <= Len(s) /\ Char(s, k) = "." /\ IsDigit(Char(s, k + 1))
      THEN RunEnd(s, k + 1) - 1
      ELSE IF k > j THEN k - 1 ELSE 0

\* Where [-+]?\d*\.?\d+ matched at i ends; 0: no match.
MatchAt(s, i) ==
  IF (Char(s, i) = "-" \/ Char(s, i) = "+") /\ MatchBody(s, i + 1) # 0
  THEN MatchBody(s, i + 1)
  ELSE MatchBody(s, i)

\* re.search(r'[-+]?\d*\.?\d+', s): the leftmost match, or None.
SearchNumber(s) ==
  LET starts == {i \in 1..Len(s) : MatchAt(s, i) # 0}
  IN  IF starts = {} THEN None
      ELSE LET i == CHOOSE i \in starts : \A j \in starts : i <= j
           IN  Some(SubSeq(s, i, MatchAt(s, i)))

IsNative(raw_value) == raw_value.t \in {"int", "float", "bool"}

\* InPercentRange with the lower end closed: [1, 100].
InPercentRangeClosed(value) == ~FracLt(value, Frac(1, 1)) /\ FracLe(value, Frac(100, 1))

\* `value > 1 and value <= 100`.
InPercentRange(value) == FracGt(value, Frac(1, 1)) /\ FracLe(value, Frac(100, 1))

\* parse_value from `value_str = str(raw_value).strip().upper()` on.
ParseText(value_str, param_name) ==
  LET pct == ParseFloat(Strip(Remove(value_str, "%")))
      com == ParseFloat(Strip(Remove(value_str, ",")))
      dir == ParseFloat(value_str)
      mat == SearchNumber(value_str)
  IN  IF value_str \in {"YES", "TRUE", "Y", "1"}
      THEN IF IsNumericParam(param_name) THEN <<None, "unexpected_boolean">>
           ELSE <<Some(Frac(1, 1)), "boolean_true">>
      ELSE IF value_str \in {"NO", "FALSE", "N", "0"}
      THEN IF IsNumericParam(param_name) THEN <<None, "unexpected_boolean">>
           ELSE <<Some(Frac(0, 1)), "boolean_false">>
      ELSE IF Contains("%", value_str) /\ pct # None
      THEN <<Some(Div100(pct[1])), "percentage">>
      ELSE IF Contains(",", value_str) /\ com # None
      THEN <<Some(com[1]), "numeric_with_commas">>
      ELSE IF dir # None
      THEN IF ParamHas(param_name, "efficiency") /\ InPercentRange(dir[1])
           THEN <<Some(Div100(dir[1])), "numeric_string_inferred_percentage">>
           ELSE <<Some(dir[1]), "numeric_direct_string">>
      ELSE IF mat # None /\ ParseFloat(mat[1]) # None
      THEN <<Some(ParseFloat(mat[1])[1]), "extracted_number">>
      ELSE <<None, "unparseable">>

\* parse_value: <<parsed_value, parse method>>.
parse_value(raw_value, param_name) ==
  IF raw_value.t = "none" \/ (raw_value.t = "str" /\ raw_value.v \in {"", "N/A", "NA"})
  THEN <<None, "null_value">>
  ELSE IF IsNative(raw_value)
  THEN LET value == NativeFloat(raw_value)
       IN  IF ParamHas(param_name, "efficiency") /\ InPercentRange(value)
           THEN <<Some(Div100(value)), "numeric_direct_inferred_percentage">>
           ELSE <<Some(value), "numeric_direct">>
  ELSE ParseText(Upper(Strip(PyStr(raw_value))), param_name)

\* validate_value: <<is_valid, warning_message>>.  A rule that does not return
\* falls through to the next one.
validate_value(parsed_value, param_name) ==
  IF parsed_value = None THEN <<TRUE, None>>
  ELSE LET v == parsed_value[1]
           neg == FracLt(v, Frac(0, 1))
       IN  IF ParamHas(param_name, "efficiency") /\ (neg \/ FracGt(v, Frac(1, 1)))
           THEN IF FracGt(v, Frac(100, 1))
                THEN <<FALSE, Some("Efficiency value " \o FloatRepr(v) \o " exceeds 100%")>>
                ELSE <<TRUE, Some("Efficiency " \o FloatRepr(v)
                                  \o " - verify if this is decimal or percentage")>>
           ELSE IF ParamHas(param_name, "coal") /\ neg
           THEN <<FALSE, Some("Coal consumption cannot be negative: " \o FloatRepr(v))>>
           ELSE IF ParamHas(param_name, "power") /\ neg
           THEN <<FALSE, Some("Power generation cannot be negative: " \o FloatRepr(v))>>
           ELSE IF ParamHas(param_name, "hour")
                   /\ (neg \/ FracGt(v, Frac(24, 1)))
           THEN <<FALSE, Some("Operating hours " \o FloatRepr(v)
                              \o " outside expected range (0-24)")>>
           ELSE <<TRUE, None>>

(***************************************************************************)
(* Bounds and input pools                                                  *)
(***************************************************************************)
\* The longest string handed to _string_similarity.
MaxStrLen == 3

\* The most headers handed to a map_headers call.
MaxHeaders == 3

\* The widest grid and the most data rows handed to parse_file.
MaxCols == 3

MaxDataRows == 1

\* The most rows of a grid handed to detect_header_row on its own.
MaxDetectRows == 3

RECURSIVE StringsUpTo(_, _)
\* Every string of at most n characters over the alphabet.
StringsUpTo(alphabet, n) ==
  IF n = 0 THEN {""}
  ELSE LET shorter == StringsUpTo(alphabet, n - 1)
       IN  shorter \cup {s \o c : s \in shorter, c \in alphabet}

SimilarityStrings == StringsUpTo({"a", "b"}, MaxStrLen)

\* Headers for map_headers: a date column, three exact aliases (one of them
\* holding a blocked term), an inferred asset, a weak match, and a header that
\* shares no character with any alias.
MapHeaderPool ==
  {"Date", "Coal Used (MT)", "Power Generation", "Grid Export", "Boiler1 Steam", "Flow",
   "zzz"}

RECURSIVE SeqsUpTo(_, _)
\* Every sequence of 1..n members of S.
SeqsUpTo(S, n) ==
  IF n = 0 THEN {}
  ELSE SeqsUpTo(S, n - 1) \cup [1..n -> S]

\* Cells for the cell pipeline and the value parser.
GridCells ==
  { NoneCell, IntCell(0), IntCell(95), IntCell(-5),
    StrCell("YES"), StrCell("12 MT"), StrCell("abc") }

ValueCells ==
  GridCells \cup
  { StrCell(""), StrCell("N/A"), StrCell("NA"), IntCell(1), IntCell(100), IntCell(101), IntCell(150),
    FloatCell(5, 10), FloatCell(255, 10), BoolCell(TRUE), BoolCell(FALSE),
    StrCell(" yes "), StrCell("True"), StrCell("y"), StrCell("1"),
    StrCell("no"), StrCell("FALSE"), StrCell("n"), StrCell("0"),
    StrCell("85%"), StrCell("abc%"), StrCell("1,200.50"), StrCell("1,2,x"),
    StrCell("95"), StrCell("100"), StrCell("150"), StrCell("0.5"), StrCell("-5"),
    StrCell("1.0"), StrCell("30"), StrCell("a-b+3.25c"), StrCell("5.x") }

\* Parameter identities for the value parser and the validator.
ValueParams ==
  { None, Some(""), Some("efficiency"), Some("Boiler_Efficiency"),
    Some("coal_consumption"), Some("coal_gcv"), Some("steam_generation"),
    Some("power_generation"), Some("power_export"), Some("operating_hours"),
    Some("plant_load_factor") }

\* Header texts of the grids: unmapped, high, medium (inferred asset), low.
GridHeaders == {"Date", "Coal Used", "Boiler1 Coal Used", "Flow"}

\* Data rows of width w: one value in every cell, or a number followed by
\* blank cells.
NumberRow(w) == [i \in 1..w |-> IF i = 1 THEN IntCell(95) ELSE NoneCell]

\* An integer cell beyond the range of a double, as the worksheet reader yields
\* for a number written with several hundred digits.
HugeIntCell == [t |-> "hugeint"]

\* A data row whose last cell is such an integer, after ordinary numbers.
FailingRow(w) == [i \in 1..w |-> IF i = w THEN HugeIntCell ELSE IntCell(95)]

DataRows(w) ==
  {[i \in 1..w |-> c] : c \in GridCells} \cup {NumberRow(w), FailingRow(w)}

\* The data rows under a label row: none, or up to MaxDataRows rows of which
\* every row after the first repeats the first, is the number row or is the
\* failing row.
Bodies(w) ==
  {<<>>} \cup {b \in SeqsUpTo(DataRows(w), MaxDataRows) :
                \A i \in 2..Len(b) : b[i] \in {b[1], NumberRow(w), FailingRow(w)}}

\* A title row of width w: one text cell, the rest None.
TitleRow(w) == [i \in 1..w |-> IF i = 1 THEN StrCell("Daily Report") ELSE NoneCell]

\* Label rows of width w: every choice of headers, and those whose columns
\* after the first all carry the same header.
LabelRows(w) == {[i \in 1..w |-> StrCell(hs[i])] : hs \in [1..w -> GridHeaders]}

PatternLabelRows(w) == {label \in LabelRows(w) : \A i \in 2..w : label[i] = label[2]}

\* The grids handed to parse_file: rectangular, as the worksheet reader yields
\* them.  <<>> is the empty sheet; a grid is a lone label row of any headers,
\* or an optional title row, a patterned label row and data rows.
GridsOfWidth(w) ==
  {<<label>> : label \in LabelRows(w)}
  \cup {<<label>> \o body : label \in PatternLabelRows(w), body \in Bodies(w)}
  \cup {<<TitleRow(w), label>> \o body :
          label \in PatternLabelRows(w), body \in Bodies(w)}

Grids == {<<>>} \cup UNION {GridsOfWidth(w) : w \in 1..MaxCols}

\* What reading the file can come to before the pipeline runs.
ParseInputs ==
  {[kind |-> "unreadable"], [kind |-> "sheet_missing"]}
  \cup {[kind |-> "grid", rows |-> g] : g \in Grids}

\* Rows for detect_header_row called on its own (rows need not be rectangular).
DetectRows ==
  { <<>>, <<StrCell("Report Title")>>,
    <<StrCell("Date"), StrCell("Coal Consumption"), StrCell("Power Generation")>>,
    <<NoneCell, NoneCell, NoneCell>>, <<StrCell("ID"), IntCell(95)>>,
    <<StrCell("Report Title"), NoneCell, NoneCell>> }

DetectGrids == {<<>>} \cup SeqsUpTo(DetectRows, MaxDetectRows)

\* The headers a run can meet, with their fuzzy match computed once.
KnownHeaders == MapHeaderPool \cup GridHeaders \cup {"Daily Report"}

FuzzyTable == [h \in KnownHeaders |-> _fuzzy_match_header(h)]

FuzzyMatch(header) ==
  IF header \in KnownHeaders THEN FuzzyTable[header] ELSE _fuzzy_match_header(header)

NonParamTable == [h \in KnownHeaders |-> _is_non_parameter(h)]

IsNonParameter(header) ==
  IF header \in KnownHeaders THEN NonParamTable[header] ELSE _is_non_parameter(header)

(***************************************************************************)
(* llm_agent.py: header row detection and header mapping                   *)
(***************************************************************************)
\* The default of max_rows_to_check.
DefaultMaxRowsToCheck == 5

SetMin(S) == CHOOSE x \in S : \A y \in S : x <= y

RECURSIVE SortedSeq(_)
\* The members of a finite set of integers in ascending order.
SortedSeq(S) == IF S = {} THEN <<>> ELSE <<SetMin(S)>> \o SortedSeq(S \ {SetMin(S)})

\* `cell and isinstance(cell, str) and len(str(cell).strip()) > 2`, counted over
\* the row and compared with len(row) * 0.6.
IsLabelRow(row) ==
  LET string_count ==
        Cardinality({i \in 1..Len(row) :
                       row[i].t = "str" /\ row[i].v # "" /\ Len(Strip(row[i].v)) > 2})
  IN  10 * string_count >= 6 * Len(row)

\* detect_header_row: the 0-based index of the first qualifying row among the
\* first max_rows_to_check, else 0.
detect_header_row(excel_data, max_rows_to_check) ==
  LET n == IF max_rows_to_check < Len(excel_data)
           THEN max_rows_to_check ELSE Len(excel_data)
      hits == {i \in 1..n : IsLabelRow(excel_data[i])}
  IN  IF hits = {} THEN 0 ELSE SetMin(hits) - 1

\* What one oracle call can come to: the SDK import fails, the call raises, the
\* response text is not JSON, it is JSON but no object, or it is a JSON object
\* whose four fields are each missing, null or a string.
JMissing == [t |-> "missing"]

JNull == [t |-> "null"]

JStr(s) == [t |-> "str", v |-> s]

JObject(p, a, c, r) ==
  [kind |-> "json_object", param_name |-> p, asset_name |-> a, confidence |-> c, reason |-> r]

\* dict.get(key, default) on the parsed object.
JGet(field, default) ==
  CASE field.t = "missing" -> default
    [] field.t = "null" -> None
    [] field.t = "str" -> Some(field.v)

\* Outcomes of one oracle call.
OracleOutcomes ==
  { [kind |-> "sdk_unavailable"], [kind |-> "exception"], [kind |-> "not_json"],
    [kind |-> "json_not_object"],
    JObject(JStr("steam_generation"), JStr("TG-1"), JStr("high"), JStr("alias match")),
    JObject(JMissing, JMissing, JMissing, JMissing),
    JObject(JStr("flow_rate"), JStr("PUMP-7"), JStr("certain"), JStr("guess")),
    JObject(JStr("coal_consumption"), JNull, JNull, JStr("no confidence")) }

NoReply == [kind |-> "none"]

\* _map_header_with_llm given the outcome of the oracle call.  Every exception
\* (ImportError, an API error, JSONDecodeError, AttributeError on a non-object,
\* the model's validation error on a null confidence or reason) is caught and
\* answered by _fuzzy_match_header.
_map_header_with_llm(header, outcome) ==
  IF outcome.kind # "json_object" THEN FuzzyMatch(header)
  ELSE LET confidence == JGet(outcome.confidence, Some("medium"))
           reason == JGet(outcome.reason, Some("LLM mapping"))
       IN  IF confidence = None \/ reason = None THEN FuzzyMatch(header)
           ELSE [header |-> header,
                 param_name |-> JGet(outcome.param_name, None),
                 asset_name |-> JGet(outcome.asset_name, None),
                 confidence |-> confidence[1],
                 reason |-> reason[1]]

\* The MappingResult map_headers builds for a flagged column.
NonParameterResult(header, reason) ==
  [header |-> header, param_name |-> None, asset_name |-> None,
   confidence |-> "low", reason |-> reason]

(***************************************************************************)
(* parser.py: per-cell and per-response computations of parse_file         *)
(***************************************************************************)
\* headers: str(cell).strip(), or Column_<i> for a falsy cell (i 0-based).
HeaderText(cell, i) ==
  IF Truthy(cell) THEN Strip(PyStr(cell)) ELSE "Column_" \o ToString(i)

\* A reconciliation whose missing-value rule applies to every cell without a
\* value, whatever its parse method.
FinalConfidenceAnyMissingValue(mapping_confidence, parsed_value, parse_method, is_valid) ==
  LET c1 == IF parse_method = "extracted_number" /\ mapping_confidence = "high"
            THEN "medium" ELSE mapping_confidence
      c2 == IF parse_method = "unexpected_boolean" THEN "low" ELSE c1
      c3 == IF parsed_value = None THEN "medium" ELSE c2
  IN  IF ~is_valid THEN "low" ELSE c3

\* The final confidence of a cell (parser.py:112-120).
FinalConfidence(mapping_confidence, parsed_value, parse_method, is_valid) ==
  LET c1 == IF parse_method = "extracted_number" /\ mapping_confidence = "high"
            THEN "medium" ELSE mapping_confidence
      c2 == IF parse_method = "unexpected_boolean" THEN "low" ELSE c1
      c3 == IF parsed_value = None /\ parse_method \in {"null_value", "unparseable"}
            THEN "medium" ELSE c2
  IN  IF ~is_valid THEN "low" ELSE c3

\* parse_value, then validate_value on its value (parser.py:106-109).
ParseAndValidate(cell_value, param_name) ==
  LET parsed == parse_value(cell_value, param_name)
  IN  <<parsed, validate_value(parsed[1], param_name)>>

\* The cells and parameter names a parse_file run can meet, with the outcome of
\* parsing and validating computed once.
KnownCells == GridCells \cup {StrCell(h) : h \in GridHeaders}

KnownParams ==
  {Some(n) : n \in ParameterNames}
  \cup {JGet(o.param_name, None) : o \in {o \in OracleOutcomes : o.kind = "json_object"}}

CellTable == [c \in KnownCells, p \in KnownParams |-> ParseAndValidate(c, p)]

CellOutcome(cell_value, param_name) == CellTable[cell_value, param_name]

PyBool(b) == IF b THEN "True" ELSE "False"

\* The ParsedCell built from a parse outcome, and the validation warning the
\* cell loop appends for it, if any (parser.py:111-137).
MakeCell(row_idx, col_idx, cell_value, mapping, parsed, valid) ==
  [cell |-> [row |-> row_idx, col |-> col_idx,
             param_name |-> mapping.param_name[1],
             asset_name |-> mapping.asset_name,
             raw_value |-> cell_value,
             parsed_value |-> parsed[1],
             confidence |-> FinalConfidence(mapping.confidence, parsed[1],
                                            parsed[2], valid[1]),
             notes |-> "Parse method: " \o parsed[2] \o ", Valid: " \o PyBool(valid[1])],
   warning |-> IF valid[2] = None THEN None
               ELSE Some("Row " \o ToString(row_idx) \o ", Col " \o ToString(col_idx)
                         \o ": " \o valid[2][1])]

CellOf(row_idx, col_idx, cell_value, mapping, outcome) ==
  MakeCell(row_idx, col_idx, cell_value, mapping, outcome[1], outcome[2])

\* The body of the cell loop for one mapped column.  row_idx and col_idx are
\* 0-based.
ProcessCell(row_idx, col_idx, cell_value, mapping) ==
  CellOf(row_idx, col_idx, cell_value, mapping,
         CellOutcome(cell_value, mapping.param_name))

\* `not any(cell for cell in row)`.
IsEmptyRow(row) == \A i \in 1..Len(row) : ~Truthy(row[i])

\* The columns (1-based) the cell loop produces a ParsedCell for.
MappedCols(header_mappings) ==
  {c \in 1..Len(header_mappings) : header_mappings[c].param_name # None}

\* float(raw_value) of parse_value raises OverflowError for an int beyond the
\* range of a double (value_parser.py:27).
Raises(raw_value) == raw_value.t = "hugeint"

\* The mapped columns of data row r whose cell makes parse_value raise.
RaisingCols(raw_data, r, header_mappings) ==
  {c \in MappedCols(header_mappings) : c <= Len(raw_data[r]) /\ Raises(raw_data[r][c])}

\* Whether the cell loop raises in data row r; an empty row is skipped before.
RowRaises(raw_data, r, header_mappings) ==
  ~IsEmptyRow(raw_data[r]) /\ RaisingCols(raw_data, r, header_mappings) # {}

\* One data row (1-based position r) of the row loop: what it appends to
\* parsed_data and to self.warnings, up to the first cell that raises.
RowCells(raw_data, r, header_mappings) ==
  LET cols == SortedSeq({c \in MappedCols(header_mappings) :
                           /\ c <= Len(raw_data[r])
                           /\ \A f \in RaisingCols(raw_data, r, header_mappings) : c < f})
  IN  [k \in 1..Len(cols) |->
         ProcessCell(r - 1, cols[k] - 1, raw_data[r][cols[k]], header_mappings[cols[k]])]

CellsOf(cells) == [k \in 1..Len(cells) |-> cells[k].cell]

WarningsOf(cells) ==
  LET warned == SortedSeq({k \in 1..Len(cells) : cells[k].warning # None})
  IN  [k \in 1..Len(warned) |-> cells[warned[k]].warning[1]]

RowOf(cells) == [cells |-> CellsOf(cells), warnings |-> WarningsOf(cells)]

\* What one data row (1-based position r) appends to parsed_data and to
\* self.warnings (parser.py:88-137).
RowResult(raw_data, r, header_mappings) ==
  IF IsEmptyRow(raw_data[r])
  THEN [cells |-> <<>>,
        warnings |-> <<"Row " \o ToString(r - 1) \o " is empty, skipped">>]
  ELSE RowOf(RowCells(raw_data, r, header_mappings))

\* The unmapped-column list (parser.py:78-84).
UnmappedColumns(headers, header_mappings) ==
  LET cols == SortedSeq((1..Len(header_mappings)) \ MappedCols(header_mappings))
  IN  [k \in 1..Len(cols) |->
         [col |-> cols[k] - 1, header |-> headers[cols[k]],
          reason |-> header_mappings[cols[k]].reason]]

\* The key of the duplicates dict for a mapped column.
DupKey(mapping) == <<mapping.param_name[1], mapping.asset_name>>

ColsOfKey(header_mappings, key) ==
  {c \in MappedCols(header_mappings) : DupKey(header_mappings[c]) = key}

\* f"{asset}".
FormatOpt(o) == IF o = None THEN "None" ELSE o[1]

\* Duplication warnings issued once per colliding column after the first of its
\* key, instead of once per key.
DuplicateWarningsPerColumn(header_mappings) ==
  LET later == SortedSeq({c \in MappedCols(header_mappings) :
                  c # SetMin(ColsOfKey(header_mappings, DupKey(header_mappings[c])))})
  IN  [k \in 1..Len(later) |->
         LET key == DupKey(header_mappings[later[k]])
         IN  "Column duplication: " \o key[1] \o " (" \o FormatOpt(key[2])
             \o ") appears in columns "
             \o ToString(SetMin(ColsOfKey(header_mappings, key)) - 1) \o " and "
             \o ToString(later[k] - 1)]

\* The duplication warnings, in the insertion order of the duplicates dict: one
\* per key with more than one column, naming cols[0] and cols[1] (0-based).
DuplicateWarnings(header_mappings) ==
  LET firsts == SortedSeq({c \in MappedCols(header_mappings) :
                   LET cols == ColsOfKey(header_mappings, DupKey(header_mappings[c]))
                   IN  c = SetMin(cols) /\ Cardinality(cols) > 1})
  IN  [k \in 1..Len(firsts) |->
         LET key == DupKey(header_mappings[firsts[k]])
             cols == SortedSeq(ColsOfKey(header_mappings, key))
         IN  "Column duplication: " \o key[1] \o " (" \o FormatOpt(key[2])
             \o ") appears in columns " \o ToString(cols[1] - 1) \o " and "
             \o ToString(cols[2] - 1)]

\* param_assets_sorted: parameter -> its non-empty asset names (a sorted list
\* without repeats in the code, a set here).
ParamAssets(header_mappings) ==
  [p \in {header_mappings[c].param_name[1] : c \in MappedCols(header_mappings)} |->
     {header_mappings[c].asset_name[1] : c \in
        {c \in MappedCols(header_mappings) :
           /\ header_mappings[c].param_name[1] = p
           /\ header_mappings[c].asset_name # None
           /\ header_mappings[c].asset_name[1] # ""}}]

DetectedAssets(header_mappings) == UNION {ParamAssets(header_mappings)[p] :
                                            p \in DOMAIN ParamAssets(header_mappings)}

\* units_metadata: the unit of every truthy param_name found in the registry.
UnitsMetadata(header_mappings) ==
  [p \in {header_mappings[c].param_name[1] : c \in
            {c \in MappedCols(header_mappings) :
               /\ header_mappings[c].param_name[1] # ""
               /\ get_parameter_by_name(header_mappings[c].param_name[1]) # None}} |->
     get_parameter_by_name(p)[1].unit]

\* A deduplication that keeps each text once but lists the kept texts from the
\* last to the first.
UniqueWarningsReversed(ws) ==
  LET keep == SortedSeq({i \in 1..Len(ws) : \A j \in 1..(i - 1) : ws[j] # ws[i]})
  IN  [k \in 1..Len(keep) |-> ws[keep[Len(keep) + 1 - k]]]

\* The order-preserving deduplication of self.warnings (parser.py:177-184).
UniqueWarnings(ws) ==
  LET keep == SortedSeq({i \in 1..Len(ws) : \A j \in 1..(i - 1) : ws[j] # ws[i]})
  IN  [k \in 1..Len(keep) |-> ws[keep[k]]]

\* An empty dict.
EmptyDict == [k \in {} |-> k]

\* An error response that reports a label row.
ErrorResponseWithHeaderRow(message) ==
  [status |-> "error", header_row |-> Some(0), parsed_data |-> <<>>,
   unmapped_columns |-> <<>>, warnings |-> <<>>, errors |-> <<message>>,
   parameters |-> [k \in {} |-> k], detected_assets |-> {}, units |-> [k \in {} |-> k],
   metadata |-> [k \in {} |-> k]]

\* ParseResponse with the defaults of models.py.
ErrorResponse(message) ==
  [status |-> "error", header_row |-> None, parsed_data |-> <<>>,
   unmapped_columns |-> <<>>, warnings |-> <<>>, errors |-> <<message>>,
   parameters |-> EmptyDict, detected_assets |-> {}, units |-> EmptyDict,
   metadata |-> EmptyDict]

SuccessResponse(raw_data, header_row_idx, headers, header_mappings, parsed_data, unmapped_cols, warnings) ==
  [status |-> "success", header_row |-> Some(header_row_idx),
   parsed_data |-> parsed_data, unmapped_columns |-> unmapped_cols,
   warnings |-> warnings, errors |-> <<>>,
   parameters |-> ParamAssets(header_mappings),
   detected_assets |-> DetectedAssets(header_mappings),
   units |-> UnitsMetadata(header_mappings),
   metadata |-> [sheet_name |-> "Sheet1",
                 total_rows |-> Len(raw_data),
                 data_rows |-> Len(raw_data) - header_row_idx - 1,
                 total_columns |-> Len(headers),
                 mapped_columns |->
                   Cardinality({c \in MappedCols(header_mappings) :
                                  header_mappings[c].param_name[1] # ""}),
                 unmapped_columns |-> Len(unmapped_cols),
                 multi_asset_detected |->
                   Cardinality(DetectedAssets(header_mappings)) > 1]]

(***************************************************************************)
(* State                                                                   *)
(***************************************************************************)
VARIABLES
  llm_available,    \* ExcelParsingAgent.llm_available, fixed at construction
  warnings,         \* ExcelParser.warnings
  errors,           \* ExcelParser.errors
  pc,               \* where the running call is: idle, map, oracle, rows, done
  op,               \* the public operation that runs: parse_file or map_headers
  raw_data,         \* parse_file: the grid read from the sheet
  header_row_idx,   \* parse_file: the detected label row (0-based)
  headers,          \* the header texts being mapped
  header_mappings,  \* the MappingResults so far, by column
  oracle_reply,     \* the outcome of the oracle call that has just returned
  row_idx,          \* parse_file: the next data row (0-based)
  parsed_data,      \* parse_file: the ParsedCells so far
  unmapped_cols,    \* parse_file: the UnmappedColumns
  response,         \* the ParseResponse returned, None while the call runs
  calls,            \* the number of parse_file calls made on this ExcelParser
  requests,         \* the /parse requests being served: stage, input, response
  call,             \* the function called last and its arguments
  ret               \* its result, None until it has run

vars ==
  <<llm_available, warnings, errors, pc, op, raw_data, header_row_idx, headers,
    header_mappings, oracle_reply, row_idx, parsed_data, unmapped_cols, response,
    calls, requests, call, ret>>

locals == <<raw_data, header_row_idx, row_idx, parsed_data, unmapped_cols>>

NoCall == [fn |-> "none"]

\* ExcelParser() / ExcelParsingAgent(): empty lists, nothing running.
Constructed ==
  /\ warnings = <<>>
  /\ errors = <<>>
  /\ pc = "idle"
  /\ op = "none"
  /\ raw_data = <<>>
  /\ header_row_idx = 0
  /\ headers = <<>>
  /\ header_mappings = <<>>
  /\ oracle_reply = NoReply
  /\ row_idx = 0
  /\ parsed_data = <<>>
  /\ unmapped_cols = <<>>
  /\ response = None
  /\ calls = 0

\* llm_available is whether an API key was configured.
Init ==
  /\ llm_available \in BOOLEAN
  /\ Constructed
  /\ requests = <<>>
  /\ call = NoCall
  /\ ret = None

(***************************************************************************)
(* map_headers, one column per step                                        *)
(***************************************************************************)
\* A caller invokes map_headers(hs).
MapHeaders ==
  /\ pc = "idle"
  /\ \E hs \in SeqsUpTo(MapHeaderPool, MaxHeaders) : headers' = hs
  /\ header_mappings' = <<>>
  /\ op' = "map_headers"
  /\ pc' = "map"
  /\ oracle_reply' = NoReply
  /\ response' = None
  /\ UNCHANGED <<llm_available, requests, calls, warnings, errors, locals, call, ret>>

\* One iteration of the loop of map_headers: a flagged column gets its
\* non-parameter result, otherwise the fuzzy match, or the oracle is called.
MapColumn ==
  /\ pc = "map"
  /\ Len(header_mappings) < Len(headers)
  /\ LET header == headers[Len(header_mappings) + 1]
         flagged == IsNonParameter(header)
     IN  IF flagged[1]
         THEN /\ header_mappings' =
                   Append(header_mappings, NonParameterResult(header, flagged[2][1]))
              /\ pc' = "map"
         ELSE IF ~llm_available
         THEN /\ header_mappings' = Append(header_mappings, FuzzyMatch(header))
              /\ pc' = "map"
         ELSE /\ header_mappings' = header_mappings
              /\ pc' = "oracle"
  /\ oracle_reply' = NoReply
  /\ UNCHANGED <<llm_available, requests, calls, warnings, errors, op, headers, locals, response,
                 call, ret>>

\* The oracle call comes back, one way or another, and _map_header_with_llm
\* returns the column's result.  The code sets no timeout on the call.
OracleReturn ==
  /\ pc = "oracle"
  /\ \E outcome \in OracleOutcomes :
       /\ header_mappings' =
            Append(header_mappings,
                   _map_header_with_llm(headers[Len(header_mappings) + 1], outcome))
       /\ oracle_reply' = outcome
  /\ pc' = "map"
  /\ UNCHANGED <<llm_available, requests, calls, warnings, errors, op, headers, locals, response,
                 call, ret>>

\* map_headers returns its results to a direct caller.
MapReturn ==
  /\ pc = "map"
  /\ op = "map_headers"
  /\ Len(header_mappings) = Len(headers)
  /\ pc' = "done"
  /\ oracle_reply' = NoReply
  /\ UNCHANGED <<llm_available, requests, calls, warnings, errors, op, headers, header_mappings,
                 locals, response, call, ret>>

(***************************************************************************)
(* parse_file                                                              *)
(***************************************************************************)
\* The error parse_file returns before the pipeline runs, if any: the workbook
\* cannot be loaded (caught by the except clause), the requested sheet is
\* absent, or the sheet has no rows.
EarlyError(input) ==
  CASE input.kind = "unreadable" ->
         Some("Error processing file: File is not a zip file")
    [] input.kind = "sheet_missing" ->
         Some("Sheet 'Data' not found. Available sheets: ['Sheet1']")
    [] input.kind = "grid" /\ input.rows = <<>> -> Some("File is empty")
    [] OTHER -> None

\* A parse_file that leaves the lists of the previous call in place.
KeptList(previous) == previous

\* `self.warnings = []`, `self.errors = []` at the start of parse_file
\* (parser.py:35-36): the list of the previous call is dropped.
FreshList(previous) == <<>>

\* The notices appended once the label row is known (parser.py:67-69).
HeaderNotices(idx) ==
  <<"Detected header row at index " \o ToString(idx)>>
  \o (IF idx > 0
      THEN <<"Rows 0-" \o ToString(idx - 1) \o " appear to be title/metadata, skipped">>
      ELSE <<>>)

\* parse_file runs on input: the lists are reset, the sheet is read, the label
\* row is detected and the header texts are built (parser.py:35-69).
StartParse(input) ==
  /\ IF EarlyError(input) # None
     THEN /\ response' = Some(ErrorResponse(EarlyError(input)[1]))
          /\ pc' = "done"
          /\ warnings' = FreshList(warnings)
          /\ raw_data' = <<>>
          /\ header_row_idx' = 0
          /\ headers' = <<>>
     ELSE LET idx == detect_header_row(input.rows, DefaultMaxRowsToCheck)
              label == input.rows[idx + 1]
          IN  /\ response' = None
              /\ pc' = "map"
              /\ raw_data' = input.rows
              /\ header_row_idx' = idx
              /\ headers' = [i \in 1..Len(label) |-> HeaderText(label[i], i - 1)]
              /\ warnings' = FreshList(warnings) \o HeaderNotices(idx)
  /\ errors' = FreshList(errors)
  /\ op' = "parse_file"
  /\ call' = [fn |-> "parse_file", input |-> input]
  /\ header_mappings' = <<>>
  /\ oracle_reply' = NoReply
  /\ row_idx' = 0
  /\ parsed_data' = <<>>
  /\ unmapped_cols' = <<>>
  /\ calls' = calls + 1
  /\ UNCHANGED <<llm_available, ret>>

\* parse_file is called on a newly constructed parser.
ParseFile ==
  /\ pc = "idle"
  /\ \E input \in ParseInputs : StartParse(input)
  /\ UNCHANGED requests

\* map_headers has returned to parse_file: the unmapped columns are listed and
\* the row loop starts (parser.py:72-87).
CollectUnmapped ==
  /\ pc = "map"
  /\ op = "parse_file"
  /\ Len(header_mappings) = Len(headers)
  /\ unmapped_cols' = UnmappedColumns(headers, header_mappings)
  /\ row_idx' = header_row_idx + 1
  /\ pc' = "rows"
  /\ oracle_reply' = NoReply
  /\ UNCHANGED <<llm_available, requests, calls, warnings, errors, op, raw_data, header_row_idx,
                 headers, header_mappings, parsed_data, response, call, ret>>

AppendRow(result) ==
  /\ parsed_data' = parsed_data \o result.cells
  /\ warnings' = warnings \o result.warnings

\* One iteration of the row loop (parser.py:87-137).  When a cell raises, the
\* except clause of parse_file returns an error response (parser.py:206-211).
ProcessRow ==
  /\ pc = "rows"
  /\ row_idx < Len(raw_data)
  /\ AppendRow(RowResult(raw_data, row_idx + 1, header_mappings))
  /\ IF RowRaises(raw_data, row_idx + 1, header_mappings)
     THEN /\ response' = Some(ErrorResponse(
                 "Error processing file: int too large to convert to float"))
          /\ pc' = "done"
          /\ row_idx' = row_idx
     ELSE /\ response' = response
          /\ pc' = pc
          /\ row_idx' = row_idx + 1
  /\ UNCHANGED <<llm_available, requests, calls, errors, op, raw_data, header_row_idx, headers,
                 header_mappings, oracle_reply, unmapped_cols, call, ret>>

\* After the last row: duplicate detection, metadata, warning deduplication and
\* the response (parser.py:139-204).
Finish ==
  /\ pc = "rows"
  /\ row_idx >= Len(raw_data)
  /\ LET unique == UniqueWarnings(warnings \o DuplicateWarnings(header_mappings))
     IN  /\ warnings' = unique
         /\ response' = Some(SuccessResponse(raw_data, header_row_idx, headers,
                                             header_mappings, parsed_data,
                                             unmapped_cols, unique))
  /\ pc' = "done"
  /\ UNCHANGED <<llm_available, requests, calls, errors, op, raw_data, header_row_idx, headers,
                 header_mappings, oracle_reply, row_idx, parsed_data, unmapped_cols,
                 call, ret>>

Next ==
  \/ ParseFile
  \/ MapColumn
  \/ OracleReturn
  \/ CollectUnmapped
  \/ ProcessRow
  \/ Finish

Spec == Init /\ [][Next]_vars

\* parse_file called again and again on one parser that has no oracle (the
\* module-level parser of main.py serves every request).
MaxCalls == 2

\* Inputs of the repeated calls: the failures before the pipeline, and the grids
\* in which no row holds two different texts and the data rows are all alike.
RepeatInputs ==
  {input \in ParseInputs :
     input.kind = "grid" =>
       /\ \A r \in 1..Len(input.rows) : \A c, d \in 1..Len(input.rows[r]) :
            (input.rows[r][c].t = "str" /\ input.rows[r][d].t = "str")
              => input.rows[r][c] = input.rows[r][d]
       /\ \A r, q \in 1..Len(input.rows) :
            (input.rows[r] \in DataRows(Len(input.rows[r]))
               /\ input.rows[q] \in DataRows(Len(input.rows[q])))
              => input.rows[r] = input.rows[q]}

RepeatInit ==
  /\ llm_available = FALSE
  /\ Constructed
  /\ requests = <<>>
  /\ call = NoCall
  /\ ret = None

\* The next request reaches parse_file once the previous call has returned.
ParseFileRepeat ==
  /\ pc \in {"idle", "done"}
  /\ calls < MaxCalls
  /\ \E input \in RepeatInputs : StartParse(input)
  /\ UNCHANGED requests

RepeatNext ==
  \/ ParseFileRepeat
  \/ MapColumn
  \/ CollectUnmapped
  \/ ProcessRow
  \/ Finish

RepeatSpec == RepeatInit /\ [][RepeatNext]_vars

(***************************************************************************)
(* Two /parse requests served by the module-level parser of main.py        *)
(***************************************************************************)
Requests == {1, 2}

\* What the two uploads read as: an unreadable file, an empty sheet, and sheets
\* with a title row, an unmapped column, duplicated columns, negative
\* readings, an empty row and a cell that raises.
ServeInputs ==
  { [kind |-> "unreadable"],
    [kind |-> "grid", rows |-> <<>>],
    [kind |-> "grid", rows |-> <<<<StrCell("Coal Used"), StrCell("Coal Used")>>,
                                 <<IntCell(-5), IntCell(-5)>>>>],
    [kind |-> "grid", rows |-> <<<<StrCell("Daily Report"), NoneCell>>,
                                 <<StrCell("Date"), StrCell("Flow")>>,
                                 <<NoneCell, NoneCell>>>>],
    [kind |-> "grid", rows |-> <<<<StrCell("Boiler1 Coal Used")>>, <<StrCell("12 MT")>>>>],
    [kind |-> "grid", rows |-> <<<<StrCell("Coal Used"), StrCell("Coal Used")>>,
                                 <<IntCell(95), HugeIntCell>>>>] }

\* Both handlers have started and wait at `await file.read()`.
ServeInit ==
  /\ llm_available = FALSE
  /\ Constructed
  /\ requests \in [Requests -> {[stage |-> "reading", input |-> i, response |-> None] :
                                  i \in ServeInputs}]
  /\ call = NoCall
  /\ ret = None

\* A server that starts a handler's parse_file while another one is running
\* (handlers run on threads).
LoopAlwaysFree == TRUE

\* parse_excel is a coroutine and parser.parse_file is called in it without an
\* await: from the call to the return of the response the event loop runs no
\* other handler.
LoopIsFree == \A j \in Requests : requests[j].stage # "parsing"

\* The upload of request i has been read and its handler calls parse_file.
BeginParse(i) ==
  /\ requests[i].stage = "reading"
  /\ LoopIsFree
  /\ StartParse(requests[i].input)
  /\ requests' = [requests EXCEPT ![i].stage = "parsing"]

\* parse_file has returned and the handler of request i returns the response.
Respond(i) ==
  /\ requests[i].stage = "parsing"
  /\ pc = "done"
  /\ requests' = [requests EXCEPT ![i].stage = "responded", ![i].response = response]
  /\ UNCHANGED <<llm_available, warnings, errors, pc, op, headers, header_mappings,
                 oracle_reply, locals, response, calls, call, ret>>

Serve == \E i \in Requests : BeginParse(i) \/ Respond(i)

ServeNext ==
  \/ Serve
  \/ MapColumn
  \/ CollectUnmapped
  \/ ProcessRow
  \/ Finish

ServeSpec == ServeInit /\ [][ServeNext]_vars

\* map_headers called on its own.
MapNext ==
  \/ MapHeaders
  \/ MapColumn
  \/ OracleReturn
  \/ MapReturn

MapSpec == Init /\ [][MapNext]_vars

\* The interpreter keeps running the loop of map_headers; nothing obliges the
\* oracle to answer.
FairMapSpec == MapSpec /\ WF_vars(MapColumn) /\ WF_vars(MapReturn)

(***************************************************************************)
(* The pure functions, each applied to an input drawn from its pool        *)
(***************************************************************************)
ValidateValues ==
  { None, Some(Frac(-5, 1)), Some(Frac(-1, 100)), Some(Frac(0, 1)), Some(Frac(5, 10)),
    Some(Frac(1, 1)), Some(Frac(101, 100)), Some(Frac(24, 1)), Some(Frac(245, 10)),
    Some(Frac(30, 1)), Some(Frac(100, 1)), Some(Frac(1001, 10)), Some(Frac(150, 1)) }

\* Parameter identities for the validator: those of the value parser and
\* identities that contain more than one rule substring.
ValidateParams ==
  ValueParams \cup {Some("coal_efficiency"), Some("efficiency_hours"), Some("coal_power_hours")}

\* Headers for _is_non_parameter called on its own: empty (as None is, being
\* falsy), blocked terms in either case, generic names with and without
\* surrounding blanks, and parameter headers.
NonParamHeaders ==
  { "", " ", "Date", "Timestamp", "Valid", "Day Notes", "DESCRIPTION of year", "Remarks",
    "Column_3", "column_3 ", " column_3", "  Unnamed: 2", "UNNAMED", "Power", "Coal Used (MT)" }

\* Headers for _fuzzy_match_header called on its own: best scores in each
\* confidence band with no asset, an inferred asset and a directly matched
\* asset, aliases of two assets in either order, and no parameter at all.
FuzzyHeaders ==
  { "Coal Used", "Boiler1 Coal Used", "AFBC-1 TG-1 Steam", "TG-1 AFBC-1 Steam",
    "Flo", "Boiler1 Ash", "Flow TG1", "Flow", "Boiler1 zz", "TG1 Fw", "zzz" }

PureCalls ==
  {[fn |-> "_string_similarity", s1 |-> a, s2 |-> b] :
     a \in SimilarityStrings, b \in SimilarityStrings}
  \cup {[fn |-> "parse_value", raw_value |-> c, param_name |-> p] :
          c \in ValueCells, p \in ValueParams}
  \cup {[fn |-> "validate_value", parsed_value |-> v, param_name |-> p] :
          v \in ValidateValues, p \in ValidateParams}
  \cup {[fn |-> "detect_header_row", excel_data |-> g] : g \in DetectGrids}
  \cup {[fn |-> "_is_non_parameter", header |-> h] : h \in NonParamHeaders}
  \cup {[fn |-> "_fuzzy_match_header", header |-> h] : h \in FuzzyHeaders}

PureInit ==
  /\ llm_available = FALSE
  /\ Constructed
  /\ requests = <<>>
  /\ call \in PureCalls
  /\ ret = None

machine ==
  <<llm_available, warnings, errors, pc, op, raw_data, header_row_idx, headers,
    header_mappings, oracle_reply, row_idx, parsed_data, unmapped_cols, response,
    calls, requests>>

StringSimilarity ==
  /\ call.fn = "_string_similarity"
  /\ ret = None
  /\ ret' = Some(_string_similarity(call.s1, call.s2))
  /\ UNCHANGED <<call, machine>>

ParseValue ==
  /\ call.fn = "parse_value"
  /\ ret = None
  /\ ret' = Some(parse_value(call.raw_value, call.param_name))
  /\ UNCHANGED <<call, machine>>

ValidateValue ==
  /\ call.fn = "validate_value"
  /\ ret = None
  /\ ret' = Some(validate_value(call.parsed_value, call.param_name))
  /\ UNCHANGED <<call, machine>>

DetectHeaderRow ==
  /\ call.fn = "detect_header_row"
  /\ ret = None
  /\ ret' = Some(detect_header_row(call.excel_data, DefaultMaxRowsToCheck))
  /\ UNCHANGED <<call, machine>>

IsNonParameterCall ==
  /\ call.fn = "_is_non_parameter"
  /\ ret = None
  /\ ret' = Some(_is_non_parameter(call.header))
  /\ UNCHANGED <<call, machine>>

FuzzyMatchHeader ==
  /\ call.fn = "_fuzzy_match_header"
  /\ ret = None
  /\ ret' = Some(_fuzzy_match_header(call.header))
  /\ UNCHANGED <<call, machine>>

PureNext ==
  \/ StringSimilarity
  \/ ParseValue
  \/ ValidateValue
  \/ DetectHeaderRow
  \/ IsNonParameterCall
  \/ FuzzyMatchHeader

PureSpec == PureInit /\ [][PureNext]_vars

(***************************************************************************)
(* Properties                                                              *)
(***************************************************************************)
Levels == {"high", "medium", "low"}

\* low < medium < high.
Rank(confidence) ==
  CASE confidence = "low" -> 1 [] confidence = "medium" -> 2 [] confidence = "high" -> 3

\* C1: every ParsedCell produced by parse_file has a final confidence that is
\* not higher (low < medium < high) than the confidence of the MappingResult
\* of its column, whatever the parse method and the validation outcome.
C1_CellConfidenceNotAboveMapping ==
  \A k \in 1..Len(parsed_data) :
     LET mapping == header_mappings[parsed_data[k].col + 1]
     IN  mapping.confidence \in Levels
           => Rank(parsed_data[k].confidence) <= Rank(mapping.confidence)

\* A reply is a well-formed mapping object when it is a JSON object carrying
\* the four expected fields, confidence and reason as strings.
WellFormedReply(reply) ==
  /\ reply.kind = "json_object"
  /\ reply.param_name.t # "missing"
  /\ reply.asset_name.t # "missing"
  /\ reply.confidence.t = "str"
  /\ reply.reason.t = "str"

\* C2: for a header the non-parameter classifier does not flag, whenever the
\* oracle call ends in anything but a well-formed mapping object (SDK
\* unavailable, an exception, text that is not JSON, JSON without the expected
\* fields), the MappingResult of the column is the one _fuzzy_match_header
\* returns for that header.
C2_OracleFailureFallsBackToFuzzy ==
  (pc = "map" /\ oracle_reply # NoReply /\ ~WellFormedReply(oracle_reply))
    => header_mappings[Len(header_mappings)]
         = _fuzzy_match_header(headers[Len(header_mappings)])

\* C3: with an oracle configured, a call of map_headers that is waiting for
\* the oracle eventually returns, even if the oracle never responds.
C3_MapHeadersReturnsDespiteSilentOracle ==
  (op = "map_headers" /\ pc = "oracle") ~> (pc = "done")

\* C4: the confidence of every MappingResult of map_headers and of every
\* ParsedCell of parse_file is one of "high", "medium", "low", on the
\* non-parameter, fuzzy and oracle paths alike.
C4_ConfidenceIsOneOfThreeLevels ==
  /\ \A c \in 1..Len(header_mappings) : header_mappings[c].confidence \in Levels
  /\ \A k \in 1..Len(parsed_data) : parsed_data[k].confidence \in Levels

\* The text of the duplication warning for the columns (1-based) first and
\* second of one key.
DuplicationText(param, asset, first, second) ==
  "Column duplication: " \o param \o " (" \o (IF asset = None THEN "None" ELSE asset[1])
  \o ") appears in columns " \o ToString(first - 1) \o " and " \o ToString(second - 1)

\* The mapped columns that share the (param_name, asset_name) key of column c.
SameKey(c) ==
  {d \in 1..Len(header_mappings) :
     /\ header_mappings[d].param_name # None
     /\ header_mappings[d].param_name = header_mappings[c].param_name
     /\ header_mappings[d].asset_name = header_mappings[c].asset_name}

\* The first column of every key that two or more mapped columns share.
SharedKeyLeaders ==
  {c \in 1..Len(header_mappings) :
     /\ header_mappings[c].param_name # None
     /\ Cardinality(SameKey(c)) >= 2
     /\ \A d \in SameKey(c) : c <= d}

\* C5: in a successful parse_file response, each (param_name, asset_name) key
\* shared by two or more mapped columns has exactly one duplication warning,
\* naming the parameter, the asset and the first two colliding columns, however
\* many columns share it; there is no other duplication warning.
C5_OneDuplicationWarningPerSharedKey ==
  (response # None /\ response[1].status = "success") =>
    LET ws == response[1].warnings
        dups == {i \in 1..Len(ws) : StartsWith(ws[i], "Column duplication: ")}
    IN  /\ \A c \in SharedKeyLeaders :
             LET rest == SameKey(c) \ {c}
                 second == CHOOSE d \in rest : \A e \in rest : d <= e
                 text == DuplicationText(header_mappings[c].param_name[1],
                                         header_mappings[c].asset_name, c, second)
             IN  Cardinality({i \in dups : ws[i] = text}) = 1
        /\ Cardinality(dups) = Cardinality(SharedKeyLeaders)

\* Three columns share one key and the response carries its single warning.
C5_Witness_ThreeColumnsOneWarning ==
  /\ response # None
  /\ response[1].status = "success"
  /\ \E c \in SharedKeyLeaders : Cardinality(SameKey(c)) = 3
  /\ Cardinality({i \in 1..Len(response[1].warnings) :
                    StartsWith(response[1].warnings[i], "Column duplication: ")}) = 1

ReportTitleGrid ==
  << <<StrCell("Report Title")>>, <<>>,
     <<StrCell("Date"), StrCell("Coal Consumption"), StrCell("Power Generation")>> >>

\* C6: detect_header_row on [["Report Title"], [], ["Date", "Coal Consumption",
\* "Power Generation"]] with the default scan limit returns index 2.
C6_TitleAndEmptyRowAreSkipped ==
  (call.fn = "detect_header_row" /\ call.excel_data = ReportTitleGrid /\ ret # None)
    => ret[1] = 2

EndToEndHeaders == <<"Date", "Coal Used (MT)", "Power Generation">>

\* C7: with no oracle configured, map_headers on ["Date", "Coal Used (MT)",
\* "Power Generation"] returns no parameter for column 0 with a reason naming
\* 'date', coal_consumption at high confidence for column 1 and
\* power_generation at high confidence for column 2.
C7_EndToEndHeadersWithoutOracle ==
  (op = "map_headers" /\ pc = "done" /\ ~llm_available /\ headers = EndToEndHeaders)
    => /\ Len(header_mappings) = 3
       /\ header_mappings[1].param_name = None
       /\ Contains("'date'", header_mappings[1].reason)
       /\ header_mappings[2].param_name = Some("coal_consumption")
       /\ header_mappings[2].confidence = "high"
       /\ header_mappings[3].param_name = Some("power_generation")
       /\ header_mappings[3].confidence = "high"

\* map_headers has returned for these headers with no oracle configured.
C7_Witness_EndToEndMapped ==
  /\ op = "map_headers"
  /\ pc = "done"
  /\ ~llm_available
  /\ headers = EndToEndHeaders
  /\ header_mappings[2].param_name = Some("coal_consumption")

\* C8: _string_similarity(s, s) is 1.0 for every non-empty s, and
\* _string_similarity(a, b) lies in [0, 1] for every a and b.
C8_SimilarityReflexiveAndBounded ==
  (call.fn = "_string_similarity" /\ ret # None) =>
    /\ FracLe(Frac(0, 1), ret[1])
    /\ FracLe(ret[1], Frac(1, 1))
    /\ (call.s1 = call.s2 /\ call.s1 # "") => FracEq(ret[1], Frac(1, 1))

\* A string with a repeated character has been scored against itself.
C8_Witness_RepeatedCharacterSelf ==
  /\ call.fn = "_string_similarity"
  /\ call.s1 = "aab"
  /\ call.s2 = "aab"
  /\ ret = Some(Frac(1, 1))

TrueWords == {"YES", "TRUE", "Y", "1"}

FalseWords == {"NO", "FALSE", "N", "0"}

NumericOnly == {"coal_consumption", "steam_generation", "power_generation", "efficiency"}

\* The stringified, trimmed, uppercased text of a cell that is not None.
CellText(cell) == Upper(Strip(PyStr(cell)))

\* What the boolean rule answers for a cell text in TrueWords or FalseWords.
BooleanAnswer(text, refused) ==
  IF refused THEN <<None, "unexpected_boolean">>
  ELSE IF text \in TrueWords THEN <<Some(Frac(1, 1)), "boolean_true">>
  ELSE <<Some(Frac(0, 1)), "boolean_false">>

IsEfficiency(param_name) ==
  param_name # None /\ Contains("efficiency", Lower(param_name[1]))

\* A text cell that reaches the direct float conversion and passes it.
ParsesDirectly(cell) ==
  /\ cell.t = "str"
  /\ cell.v \notin {"", "N/A", "NA"}
  /\ CellText(cell) \notin TrueWords \cup FalseWords
  /\ ParseFloat(CellText(cell)) # None

\* value is in (1, 100].
IsPercentLike(value) == FracGt(value, Frac(1, 1)) /\ ~FracGt(value, Frac(100, 1))

\* The result carries `number`, divided by 100 when `divided`, under `tag`.
Returns(result, number, divided, tag) ==
  /\ result[2] = tag
  /\ result[1] # None
  /\ FracEq(result[1][1], IF divided THEN Frac(number[1], number[2] * 100) ELSE number)

\* The native-number rule of C10: divided by 100 and tagged
\* "numeric_direct_inferred_percentage" for an efficiency parameter and a value
\* in (1, 100], unchanged and tagged "numeric_direct" otherwise.
NativeRule(cell, param_name, result) ==
  IF IsEfficiency(param_name) /\ IsPercentLike(NativeFloat(cell))
  THEN Returns(result, NativeFloat(cell), TRUE, "numeric_direct_inferred_percentage")
  ELSE Returns(result, NativeFloat(cell), FALSE, "numeric_direct")

\* C10 as stated: the native-number rule, and a string cell that parses
\* directly as a float gets the same division and is tagged
\* "numeric_direct_string", as is every other directly parsed string.
C10_PercentInferenceAsStated ==
  (call.fn = "parse_value" /\ ret # None) =>
    /\ IsNative(call.raw_value) => NativeRule(call.raw_value, call.param_name, ret[1])
    /\ ParsesDirectly(call.raw_value) =>
         LET number == ParseFloat(CellText(call.raw_value))[1]
         IN  Returns(ret[1], number,
                     IsEfficiency(call.param_name) /\ IsPercentLike(number),
                     "numeric_direct_string")

\* C10, amended: the native-number rule as stated; a string cell that parses
\* directly as a float gets the same division but is then tagged
\* "numeric_string_inferred_percentage", and "numeric_direct_string" only when
\* no division applies.
C10_PercentInferenceWithStringTag ==
  (call.fn = "parse_value" /\ ret # None) =>
    /\ IsNative(call.raw_value) => NativeRule(call.raw_value, call.param_name, ret[1])
    /\ ParsesDirectly(call.raw_value) =>
         LET number == ParseFloat(CellText(call.raw_value))[1]
         IN  IF IsEfficiency(call.param_name) /\ IsPercentLike(number)
             THEN Returns(ret[1], number, TRUE, "numeric_string_inferred_percentage")
             ELSE Returns(ret[1], number, FALSE, "numeric_direct_string")

\* "95" under an efficiency parameter has been divided by 100.
C10_Witness_StringPercentInferred ==
  /\ call.fn = "parse_value"
  /\ call.raw_value = StrCell("95")
  /\ call.param_name = Some("Boiler_Efficiency")
  /\ ret = Some(<<Some(Frac(95, 100)), "numeric_string_inferred_percentage">>)

\* The parameter identity contains the rule substring, case-insensitively.
HasRule(param_name, rule) ==
  param_name # None /\ Contains(rule, Lower(param_name[1]))

ValidationRules == <<"efficiency", "coal", "power", "hour">>

\* The rules (by position in ValidationRules) whose substring the identity holds.
MatchingRules(param_name) ==
  {i \in 1..Len(ValidationRules) : HasRule(param_name, ValidationRules[i])}

\* C11: for a parameter identity containing 'efficiency' and no other rule
\* substring, validate_value returns (valid, no warning) exactly for values in
\* [0, 1], (valid, a warning) exactly for values in (1, 100], and invalid for
\* every other value, above 100 and below 0.
C11_EfficiencyRanges ==
  (/\ call.fn = "validate_value"
   /\ ret # None
   /\ call.parsed_value # None
   /\ MatchingRules(call.param_name) = {1})
    => LET v == call.parsed_value[1]
       IN  IF ~FracLt(v, Frac(0, 1)) /\ ~FracGt(v, Frac(1, 1))
           THEN ret[1] = <<TRUE, None>>
           ELSE IF FracGt(v, Frac(1, 1)) /\ ~FracGt(v, Frac(100, 1))
           THEN ret[1][1] = TRUE /\ ret[1][2] # None
           ELSE ret[1][1] = FALSE

\* C12: validate_value returns (valid, no warning) for None under every
\* parameter identity; for an identity containing 'coal' or 'power' it returns
\* invalid with a message exactly when the value is below 0; for an identity
\* containing 'hour', exactly when the value is below 0 or above 24.
C12_NoneCoalPowerHourRules ==
  (call.fn = "validate_value" /\ ret # None) =>
    IF call.parsed_value = None THEN ret[1] = <<TRUE, None>>
    ELSE LET v == call.parsed_value[1]
             invalid == ret[1][1] = FALSE /\ ret[1][2] # None
         IN  /\ (MatchingRules(call.param_name) \cap {2, 3} # {}
                 /\ 4 \notin MatchingRules(call.param_name))
                  => (invalid <=> FracLt(v, Frac(0, 1)))
             /\ 4 \in MatchingRules(call.param_name)
                  => (invalid <=> (FracLt(v, Frac(0, 1)) \/ FracGt(v, Frac(24, 1))))

\* What one rule answers for a value on its own: validity and whether a
\* message comes with it.
RuleOutcome(rule, v) ==
  CASE rule = 1 -> IF FracGt(v, Frac(100, 1)) THEN <<FALSE, "Efficiency value">>
                   ELSE IF FracLt(v, Frac(0, 1)) \/ FracGt(v, Frac(1, 1))
                   THEN <<TRUE, "Efficiency ">>
                   ELSE <<TRUE, "">>
    [] rule = 2 -> IF FracLt(v, Frac(0, 1)) THEN <<FALSE, "Coal consumption">>
                   ELSE <<TRUE, "">>
    [] rule = 3 -> IF FracLt(v, Frac(0, 1)) THEN <<FALSE, "Power generation">>
                   ELSE <<TRUE, "">>
    [] rule = 4 -> IF FracLt(v, Frac(0, 1)) \/ FracGt(v, Frac(24, 1))
                   THEN <<FALSE, "Operating hours">>
                   ELSE <<TRUE, "">>

\* C20: when a parameter identity matches more than one rule substring,
\* the result of validate_value is the outcome of the last matching rule, in
\* the order efficiency, coal, power, hour, for every value.
C20_LastMatchingRuleStands ==
  (/\ call.fn = "validate_value"
   /\ ret # None
   /\ call.parsed_value # None
   /\ Cardinality(MatchingRules(call.param_name)) > 1)
    => LET rules == MatchingRules(call.param_name)
           last == CHOOSE i \in rules : \A j \in rules : j <= i
           want == RuleOutcome(last, call.parsed_value[1])
       IN  /\ ret[1][1] = want[1]
           /\ IF want[2] = "" THEN ret[1][2] = None
              ELSE ret[1][2] # None /\ StartsWith(ret[1][2][1], want[2])

\* The position of the first occurrence of text w in the list ws.
FirstIndex(ws, w) == SetMin({i \in 1..Len(ws) : ws[i] = w})

NoRepeats(ws) == \A i, j \in 1..Len(ws) : i # j => ws[i] # ws[j]

\* The stage of the parse a warning text comes from: 1 the header-row notices,
\* 2 the row and cell warnings, 3 the duplication warnings.
WarningStage(w) ==
  IF StartsWith(w, "Detected header row") \/ StartsWith(w, "Rows 0-") THEN 1
  ELSE IF StartsWith(w, "Column duplication") THEN 3
  ELSE 2

\* C13: the warnings of every parse_file response hold no text twice and come in
\* the order of first occurrence in the list the parse accumulated (the list
\* self.warnings at the end of the row loop followed by the duplication
\* warnings): header-row notices, then row/cell warnings in the order they
\* were appended, then duplication warnings.
C13_WarningsUniqueInFirstOccurrenceOrder ==
  [][Finish =>
       LET raw == warnings \o DuplicateWarnings(header_mappings)
           out == response'[1].warnings
       IN  /\ NoRepeats(out)
           /\ {out[i] : i \in 1..Len(out)} = {raw[i] : i \in 1..Len(raw)}
           /\ \A i, j \in 1..Len(out) :
                i < j => /\ FirstIndex(raw, out[i]) < FirstIndex(raw, out[j])
                         /\ WarningStage(out[i]) <= WarningStage(out[j])]_vars

\* A response whose warnings hold a header-row notice, a row or cell warning and
\* a duplication warning.
C13_Witness_WarningsOfAllStages ==
  /\ op = "parse_file"
  /\ response # None
  /\ response[1].status = "success"
  /\ \A stage \in 1..3 :
       \E i \in 1..Len(response[1].warnings) :
          WarningStage(response[1].warnings[i]) = stage

\* C14: when the sheet has no rows or the requested sheet is absent, parse_file
\* returns status "error" with a non-empty errors list and none of the pipeline
\* has run: header_row is unset, parsed_data, unmapped_columns, warnings,
\* parameters, detected_assets and units are empty, and no header was mapped.
C14_StructuralFailureReturnsBareError ==
  (/\ call.fn = "parse_file"
   /\ \/ call.input.kind = "sheet_missing"
      \/ call.input.kind = "grid" /\ call.input.rows = <<>>)
  => /\ pc = "done"
     /\ response # None
     /\ response[1].status = "error"
     /\ response[1].errors # <<>>
     /\ response[1].header_row = None
     /\ response[1].parsed_data = <<>>
     /\ response[1].unmapped_columns = <<>>
     /\ response[1].warnings = <<>>
     /\ DOMAIN response[1].parameters = {}
     /\ response[1].detected_assets = {}
     /\ DOMAIN response[1].units = {}
     /\ headers = <<>> /\ header_mappings = <<>> /\ parsed_data = <<>>

\* parse_file has returned for a workbook without the requested sheet.
C14_Witness_SheetMissing ==
  /\ call.fn = "parse_file"
  /\ call.input.kind = "sheet_missing"
  /\ response # None
  /\ response[1].errors = <<"Sheet 'Data' not found. Available sheets: ['Sheet1']">>

\* C15: the response parse_file returns for a sheet that has rows contains
\* every ParsedCell and unmapped column produced, and every warning raised,
\* up to the return, also when a data row or column failed on the way.
C15_CompletedWorkIsRetained ==
  (/\ call.fn = "parse_file"
   /\ pc = "done"
   /\ call.input.kind = "grid"
   /\ call.input.rows # <<>>)
  => /\ response[1].parsed_data = parsed_data
     /\ response[1].unmapped_columns = unmapped_cols
     /\ \A i \in 1..Len(warnings) :
          \E j \in 1..Len(response[1].warnings) : response[1].warnings[j] = warnings[i]

\* The results map_headers gives the header texts hs when no oracle is
\* configured.
MappingsWithoutOracle(hs) ==
  [c \in 1..Len(hs) |->
     IF IsNonParameter(hs[c])[1]
     THEN NonParameterResult(hs[c], IsNonParameter(hs[c])[2][1])
     ELSE FuzzyMatch(hs[c])]

\* The header texts parse_file builds from the label row of rows.
HeadersOf(rows) ==
  [i \in 1..Len(rows[detect_header_row(rows, DefaultMaxRowsToCheck) + 1]) |->
     HeaderText(rows[detect_header_row(rows, DefaultMaxRowsToCheck) + 1][i], i - 1)]

\* What the data rows r, r+1, ... of rows yield under the mappings hm, and
\* whether one of them raises.
RECURSIVE RowsFrom(_, _, _)
RowsFrom(rows, r, hm) ==
  IF r > Len(rows) THEN [cells |-> <<>>, warnings |-> <<>>, failed |-> FALSE]
  ELSE IF RowRaises(rows, r, hm) THEN [cells |-> <<>>, warnings |-> <<>>, failed |-> TRUE]
  ELSE [cells |-> RowResult(rows, r, hm).cells \o RowsFrom(rows, r + 1, hm).cells,
        warnings |-> RowResult(rows, r, hm).warnings \o RowsFrom(rows, r + 1, hm).warnings,
        failed |-> RowsFrom(rows, r + 1, hm).failed]

ResponseFrom(rows, idx, hs, hm, body) ==
  IF body.failed
  THEN ErrorResponse("Error processing file: int too large to convert to float")
  ELSE SuccessResponse(rows, idx, hs, hm, body.cells, UnmappedColumns(hs, hm),
                       UniqueWarnings(HeaderNotices(idx) \o body.warnings
                                      \o DuplicateWarnings(hm)))

\* The response a parser without oracle gives an input, as a function of the
\* input alone.
ResponseOfInput(input) ==
  IF EarlyError(input) # None THEN ErrorResponse(EarlyError(input)[1])
  ELSE ResponseFrom(input.rows, detect_header_row(input.rows, DefaultMaxRowsToCheck),
                    HeadersOf(input.rows), MappingsWithoutOracle(HeadersOf(input.rows)),
                    RowsFrom(input.rows,
                             detect_header_row(input.rows, DefaultMaxRowsToCheck) + 2,
                             MappingsWithoutOracle(HeadersOf(input.rows))))

\* C16: with no oracle configured, the response of every parse_file call on one
\* parser, the first or a later one, after successful or failing calls, is a
\* function of that call's input alone; it holds no warning or error of an
\* earlier call, and the same grid gets the same response every time.
C16_ResponseDependsOnInputOnly ==
  (call.fn = "parse_file" /\ pc = "done" /\ ~llm_available)
  => response = Some(ResponseOfInput(call.input))

\* A second call on the same parser has returned a response with warnings.
C16_Witness_SecondCallReturned ==
  /\ call.fn = "parse_file"
  /\ pc = "done"
  /\ calls = 2
  /\ response[1].status = "success"
  /\ Len(response[1].warnings) > 2

\* The terms of non_terms contained in the lowercased header, by position.
BlockedTermHits(header) ==
  {i \in 1..Len(non_terms) : Contains(non_terms[i], Lower(header))}

\* C17: _is_non_parameter applies its checks in order, first match wins: the
\* empty header gives (true, "Empty header"); else the first term of date, time,
\* timestamp, day, month, year, id, comment, notes, remarks, description
\* contained in the header, case ignored, gives true with a reason naming it;
\* else a header whose trimmed, lowercased text starts with "column_" or
\* "unnamed" gives (true, "Unnamed or generic column"); else (false, none).
C17_NonParameterChecksInOrder ==
  (call.fn = "_is_non_parameter" /\ ret # None)
  => LET header == call.header
         trimmed == Strip(Lower(header))
     IN  IF header = "" THEN ret[1] = <<TRUE, Some("Empty header")>>
         ELSE IF BlockedTermHits(header) # {}
         THEN /\ ret[1][1] = TRUE
              /\ ret[1][2] # None
              /\ Contains("'" \o non_terms[SetMin(BlockedTermHits(header))] \o "'",
                          ret[1][2][1])
         ELSE IF StartsWith(trimmed, "column_") \/ StartsWith(trimmed, "unnamed")
         THEN ret[1] = <<TRUE, Some("Unnamed or generic column")>>
         ELSE ret[1] = <<FALSE, None>>

\* The assets (by position in ASSET_REGISTRY) with an alias contained in the
\* trimmed, lowercased header.
AssetHits(header) ==
  {i \in 1..Len(ASSET_REGISTRY) :
     \E a \in 1..Len(ASSET_REGISTRY[i].aliases) :
        Contains(Lower(ASSET_REGISTRY[i].aliases[a]), Strip(Lower(header)))}

\* C18: when aliases of two or more assets are contained in the header, case
\* ignored, the asset_name of the _fuzzy_match_header result is the asset that
\* comes first in registry order.
C18_FirstAssetInRegistryOrderWins ==
  (/\ call.fn = "_fuzzy_match_header"
   /\ ret # None
   /\ Cardinality(AssetHits(call.header)) >= 2)
  => ret[1].asset_name = Some(ASSET_REGISTRY[SetMin(AssetHits(call.header))].name)

\* Whether the asset of the result for header comes from _infer_asset_from_text.
AssetWasInferred(header) ==
  /\ AssetHits(header) = {}
  /\ _infer_asset_from_text(Strip(Lower(header)))[1] # None

\* C19: the confidence of a _fuzzy_match_header result follows from the best
\* similarity score and the asset origin only: high above 0.85, medium above
\* 0.6 up to 0.85, low otherwise, and high becomes medium when the asset was
\* inferred rather than matched directly.
C19_ConfidenceFromScoreAndAssetOrigin ==
  (call.fn = "_fuzzy_match_header" /\ ret # None)
  => LET score == BestParam(Strip(Lower(call.header)))[2]
         band == IF FracGt(score, Frac(85, 100)) THEN "high"
                 ELSE IF FracGt(score, Frac(6, 10)) THEN "medium"
                 ELSE "low"
     IN  ret[1].confidence =
           (IF band = "high" /\ AssetWasInferred(call.header) THEN "medium" ELSE band)

\* A result whose best score is in the high band and whose asset was inferred:
\* its confidence is medium.
C19_Witness_InferredAssetDowngraded ==
  /\ call.fn = "_fuzzy_match_header"
  /\ ret # None
  /\ AssetWasInferred(call.header)
  /\ FracGt(BestParam(Strip(Lower(call.header)))[2], Frac(85, 100))
  /\ ret[1].confidence = "medium"

\* The parse method and the validity a ParsedCell records in its notes.
CellMethodIs(cell, parse_method) ==
  \E valid \in BOOLEAN :
     cell.notes = "Parse method: " \o parse_method \o ", Valid: " \o PyBool(valid)

CellIsValid(cell) ==
  \E n \in 0..Len(cell.notes) : cell.notes = SubSeq(cell.notes, 1, n) \o ", Valid: True"

\* C21: every cell whose validation failed and every cell parsed as
\* "unexpected_boolean" has final confidence low, whatever the confidence of its
\* column; a cell parsed as "extracted_number" in a high-confidence column that
\* passes validation has final confidence medium.
C21_FailedAndUnexpectedBooleanCellsAreLow ==
  \A k \in 1..Len(parsed_data) :
     LET cell == parsed_data[k]
         mapping == header_mappings[cell.col + 1]
     IN  /\ (~CellIsValid(cell) \/ CellMethodIs(cell, "unexpected_boolean"))
              => cell.confidence = "low"
         /\ (/\ CellMethodIs(cell, "extracted_number")
             /\ mapping.confidence = "high"
             /\ CellIsValid(cell))
              => cell.confidence = "medium"

\* A cell parsed as "unexpected_boolean" in a high-confidence column, returned
\* with confidence low.
C21_Witness_UnexpectedBooleanInHighColumn ==
  /\ pc = "done"
  /\ \E k \in 1..Len(parsed_data) :
        /\ header_mappings[parsed_data[k].col + 1].confidence = "high"
        /\ CellMethodIs(parsed_data[k], "unexpected_boolean")
        /\ parsed_data[k].confidence = "low"

\* Whether every cell of the row is null or the empty string.
IsBlankRow(row) ==
  \A i \in 1..Len(row) : row[i].t = "none" \/ (row[i].t = "str" /\ row[i].v = "")

\* The positions in cells of the ParsedCells of row r, column c (both 0-based).
CellsAt(cells, r, c) == {k \in 1..Len(cells) : cells[k].row = r /\ cells[k].col = c}

\* C22: in a returned parse, a data row is skipped (no ParsedCell, one warning
\* naming its index) if and only if every one of its cells is null or an empty
\* string; every other row, numbers and booleans of any value included, yields
\* one ParsedCell per mapped column within the header width and no such warning.
C22_OnlyBlankRowsAreSkipped ==
  (call.fn = "parse_file" /\ pc = "done" /\ response[1].status = "success")
  => \A r \in (header_row_idx + 1)..(Len(raw_data) - 1) :
        LET row == raw_data[r + 1]
            skipped == "Row " \o ToString(r) \o " is empty, skipped"
            named == {i \in 1..Len(response[1].warnings) : response[1].warnings[i] = skipped}
        IN  IF IsBlankRow(row)
            THEN /\ \A c \in 0..(Len(row) - 1) : CellsAt(response[1].parsed_data, r, c) = {}
                 /\ Cardinality(named) = 1
            ELSE /\ \A c \in 1..Len(row) :
                      Cardinality(CellsAt(response[1].parsed_data, r, c - 1)) =
                        (IF c \in MappedCols(header_mappings) THEN 1 ELSE 0)
                 /\ named = {}

\* C23: when two parse requests are served concurrently by the one module-level
\* parser, under every interleaving of their steps the warnings and errors of
\* each response are exactly those the request's input gives when parsed alone.
C23_ConcurrentRequestsKeepTheirWarnings ==
  \A i \in DOMAIN requests :
     requests[i].stage = "responded"
       => /\ requests[i].response # None
          /\ requests[i].response[1].warnings = ResponseOfInput(requests[i].input).warnings
          /\ requests[i].response[1].errors = ResponseOfInput(requests[i].input).errors

\* Both requests have been answered, with different non-empty warnings.
C23_Witness_BothAnsweredWithOwnWarnings ==
  /\ DOMAIN requests = Requests
  /\ \A i \in Requests : /\ requests[i].stage = "responded"
                         /\ requests[i].response[1].warnings # <<>>
  /\ requests[1].response[1].warnings # requests[2].response[1].warnings

\* C24: every MappingResult of map_headers has a param_name that is absent or
\* the name of a parameter of PARAMETER_REGISTRY and an asset_name that is
\* absent or the name of an asset of ASSET_REGISTRY, on the fuzzy path and on
\* the oracle path; and every key of the parameters map of a response has an
\* entry in its units map.
C24_MappingsNameRegistryEntries ==
  /\ \A c \in 1..Len(header_mappings) :
        /\ header_mappings[c].param_name # None
             => get_parameter_by_name(header_mappings[c].param_name[1]) # None
        /\ header_mappings[c].asset_name # None
             => \E a \in 1..Len(ASSET_REGISTRY) :
                   ASSET_REGISTRY[a].name = header_mappings[c].asset_name[1]
  /\ (response # None /\ response[1].status = "success")
       => DOMAIN response[1].parameters \subseteq DOMAIN response[1].units

\* The parameters (by position in PARAMETER_REGISTRY) that list header as an
\* alias.
ParamsWithAlias(header) ==
  {p \in 1..Len(PARAMETER_REGISTRY) :
     \E a \in 1..Len(PARAMETER_REGISTRY[p].aliases) :
        PARAMETER_REGISTRY[p].aliases[a] = header}

\* C25: with no oracle configured, map_headers gives a header equal to a
\* registered alias a MappingResult whose param_name is the alias's parameter,
\* with confidence high; no registered alias is classified as a non-parameter
\* column.
C25_EveryAliasMapsToItsParameter ==
  (op = "map_headers" /\ ~llm_available)
  => \A c \in 1..Len(header_mappings) :
        \A p \in ParamsWithAlias(headers[c]) :
           /\ header_mappings[c].param_name = Some(PARAMETER_REGISTRY[p].name)
           /\ header_mappings[c].confidence = "high"

\* C26: parse_value gives a native boolean cell the result of its text form:
\* (None, "unexpected_boolean") for a parameter identity containing one of the
\* numeric-only names, otherwise (1.0, "boolean_true") for true and
\* (0.0, "boolean_false") for false.
C26_NativeBooleanLikeItsText ==
  (call.fn = "parse_value" /\ ret # None /\ call.raw_value.t = "bool")
  => ret[1] = BooleanAnswer(IF call.raw_value.v THEN "TRUE" ELSE "FALSE",
                            /\ call.param_name # None
                            /\ \E w \in NumericOnly : Contains(w, Lower(call.param_name[1])))

\* Whether some registry alias scores above 0 against the header, for the
\* headers a run can meet.
SomeAliasScores ==
  [h \in KnownHeaders |->
     \E pa \in AliasPairs : FracGt(AliasScore(Strip(Lower(h)), pa), Frac(0, 1))]

\* C27: on the fuzzy path (no oracle, header not classified as non-parameter) a
\* column whose header scores above 0 against some alias gets a param_name,
\* even with confidence low: it is never listed in unmapped_columns, and every
\* processed data row of a returned parse has a ParsedCell for it.
C27_ScoringColumnsAreMapped ==
  (call.fn = "parse_file" /\ ~llm_available)
  => \A c \in 1..Len(header_mappings) :
        (~IsNonParameter(headers[c])[1] /\ SomeAliasScores[headers[c]])
        => /\ header_mappings[c].param_name # None
           /\ \A u \in 1..Len(unmapped_cols) : unmapped_cols[u].col # c - 1
           /\ (response # None /\ response[1].status = "success")
                => /\ \A u \in 1..Len(response[1].unmapped_columns) :
                         response[1].unmapped_columns[u].col # c - 1
                   /\ \A r \in (header_row_idx + 1)..(Len(raw_data) - 1) :
                         ~IsEmptyRow(raw_data[r + 1])
                           => CellsAt(response[1].parsed_data, r, c - 1) # {}

\* A returned parse with a low-confidence fuzzy column that has a ParsedCell.
C27_Witness_LowConfidenceColumnParsed ==
  /\ call.fn = "parse_file"
  /\ ~llm_available
  /\ response # None
  /\ response[1].status = "success"
  /\ \E k \in 1..Len(response[1].parsed_data) :
        /\ header_mappings[response[1].parsed_data[k].col + 1].confidence = "low"
        /\ header_mappings[response[1].parsed_data[k].col + 1].header = "Flow"

\* C28: _string_similarity(a, b) is 1.0 only when a and b are the same string;
\* every pair of different strings scores strictly below 1.0.
C28_FullScoreOnlyForEqualStrings ==
  (call.fn = "_string_similarity" /\ ret # None /\ call.s1 # call.s2)
  => FracLt(ret[1], Frac(1, 1))

=============================================================================
